---- MODULE Spec2Model ----
(***************************************************************************)
(* gnzlbg/is_utf8: UTF-8 validation of a byte slice and ASCII-prefix       *)
(* scanning.                                                               *)
(*                                                                         *)
(*   src/src/lib.rs        is_utf8, the validator that follows the         *)
(*                         RFC 3629 grammar and skips ASCII runs a word    *)
(*                         at a time                                       *)
(*   src/src/hoehrmann.rs  is_utf8, Hoehrmann's table-driven DFA           *)
(*   src/src/ascii.rs      is_ascii_scalar and the vectorised scanners     *)
(*                                                                         *)
(* Every function is pure.  One iteration of each loop is an operator      *)
(* (..._iter); the whole function is the iteration of that operator, and   *)
(* the stepped specification executes the same operator one iteration per  *)
(* step.  Indices are the source's 0-based indices; At(v, i) reads v[i].   *)
(* A byte is a number in 0..255.                                           *)
(***************************************************************************)
EXTENDS Integers, Sequences, FiniteSets, TLC

VARIABLES
    x,             \* the byte slice handed to the functions
    g_res,         \* verdict of lib.rs is_utf8 on x        (NotCalled before the call)
    d_res,         \* verdict of hoehrmann.rs is_utf8 on x  (NotCalled before the call)
    a_res,         \* verdicts of the ascii.rs scanners on x, by scanner name
    fn,            \* stepped execution: the function being executed
    pc,            \* stepped execution: "loop" | "tail" | "done" ("idle" when none runs)
    base,          \* stepped execution: address of x[0] modulo usize_bytes
    usize_bytes,   \* stepped execution: mem::size_of::<usize>()
    index,         \* stepped execution: the scan index (index in lib.rs, i elsewhere)
    s,             \* stepped execution: the DFA state
    first_not_ok,  \* stepped execution: the DFA's first_not_ok
    iters          \* stepped execution: iterations of the function's loop so far

vars == <<x, g_res, d_res, a_res, fn, pc, base, usize_bytes, index, s, first_not_ok, iters>>
results == <<g_res, d_res, a_res>>
locals == <<fn, pc, base, usize_bytes, index, s, first_not_ok, iters>>

(***************************************************************************)
(* Bounds of the model                                                     *)
(***************************************************************************)
\* Every byte sequence of at most MaxLen bytes over Bytes is an input of the validators.
MaxLen == 3
\* Longest ASCII run put in front of a short tail (reaches the word-wise loop).
MaxRun == 24
\* Longest tail after such a run.
MaxTail == 1
\* Longest input of the ASCII scanners (one 128-byte block and more).
MaxAsciiLen == 130
\* Every sequence of at most MaxStepLen bytes over StepBytes is a stepped input.
MaxStepLen == 3
\* Longest ASCII run put in front of a unit in the stepped execution of the validators.
MaxPre == 1

\* One byte at each end of every byte range the RFC 3629 grammar, the width
\* table and the DFA's class table distinguish.
Bytes ==
    { 0, 127,              \* 00-7F
      128, 143,            \* 80-8F
      144, 159,            \* 90-9F
      160, 191,            \* A0-BF
      192, 193,            \* C0-C1
      194, 223,            \* C2-DF
      224,                 \* E0
      225, 236,            \* E1-EC
      237,                 \* ED
      238, 239,            \* EE-EF
      240,                 \* F0
      241, 243,            \* F1-F3
      244,                 \* F4
      245, 255 }           \* F5-FF

(***************************************************************************)
(* Values                                                                  *)
(***************************************************************************)
At(v, i) == v[i + 1]

\* Option<u8>
None == <<>>
Some(n) == <<n>>

\* Result<(), Utf8Error>; Utf8ErrorImpl(valid_up_to, error_len) is transmuted to Utf8Error.
Ok == [tag |-> "Ok"]
Utf8ErrorImpl(valid_up_to, error_len) ==
    [tag |-> "Err", valid_up_to |-> valid_up_to, error_len |-> error_len]
NotCalled == [tag |-> "NotCalled"]
\* An iteration that ends without returning: the loop goes on at index next.
Continue(next) == [tag |-> "Continue", next |-> next]

\* Bitwise AND of two bytes.
RECURSIVE BitAnd(_, _, _)
BitAnd(a, b, bits) ==
    IF bits = 0 THEN 0
    ELSE (IF a % 2 = 1 /\ b % 2 = 1 THEN 1 ELSE 0) + 2 * BitAnd(a \div 2, b \div 2, bits - 1)
And8[a \in 0..255, b \in {128, 192}] == BitAnd(a, b, 8)

(***************************************************************************)
(* lib.rs                                                                  *)
(***************************************************************************)
UTF8_CHAR_WIDTH ==
  <<
     1,1,1,1,1,1,1,1,1,1,1,1,1,1,1,1,
     1,1,1,1,1,1,1,1,1,1,1,1,1,1,1,1,
     1,1,1,1,1,1,1,1,1,1,1,1,1,1,1,1,
     1,1,1,1,1,1,1,1,1,1,1,1,1,1,1,1,
     1,1,1,1,1,1,1,1,1,1,1,1,1,1,1,1,
     1,1,1,1,1,1,1,1,1,1,1,1,1,1,1,1,
     1,1,1,1,1,1,1,1,1,1,1,1,1,1,1,1,
     1,1,1,1,1,1,1,1,1,1,1,1,1,1,1,1,
     0,0,0,0,0,0,0,0,0,0,0,0,0,0,0,0,
     0,0,0,0,0,0,0,0,0,0,0,0,0,0,0,0,
     0,0,0,0,0,0,0,0,0,0,0,0,0,0,0,0,
     0,0,0,0,0,0,0,0,0,0,0,0,0,0,0,0,
     0,0,2,2,2,2,2,2,2,2,2,2,2,2,2,2,
     2,2,2,2,2,2,2,2,2,2,2,2,2,2,2,2,
     3,3,3,3,3,3,3,3,3,3,3,3,3,3,3,3,
     4,4,4,4,4,0,0,0,0,0,0,0,0,0,0,0
  >>

\* Mask of the value bits of a continuation byte.
CONT_MASK == 63
\* Value of the tag bits (tag mask is !CONT_MASK) of a continuation byte.
TAG_CONT_U8 == 128

\* The condition of lib.rs:117, 128, 139, 142 negated: `b & !CONT_MASK == TAG_CONT_U8`.
IsTail(b) == And8[b, 255 - CONT_MASK] = TAG_CONT_U8

\* NONASCII_MASK truncated to a word of usize_bytes bytes; a word is the tuple of its bytes.
NONASCII_MASK(bytes) == [k \in 1..bytes |-> 128]

\* The word read by `*block`: the bytes v[i], ..., v[i + bytes - 1].
ReadWord(v, i, bytes) == [k \in 1..bytes |-> At(v, i + k - 1)]

\* Mutant of contains_nonascii: only the low 32 bits of the word are tested.
contains_nonascii_Low32(w) ==
    \E k \in DOMAIN w : k <= 4 /\ And8[w[k], NONASCII_MASK(Len(w))[k]] # 0

\* (x & NONASCII_MASK) != 0
contains_nonascii(w) == \E k \in DOMAIN w : And8[w[k], NONASCII_MASK(Len(w))[k]] # 0

\* Mutant of Second3: overlong forms pass (0xE0 takes 0x80...0xBF).
Second3_E0Overlong(first, second) ==
    \/ first \in 224..236 /\ second \in 128..191
    \/ first = 237 /\ second \in 128..159
    \/ first \in 238..239 /\ second \in 128..191

\* Mutant of Second3: the surrogate range is not excluded (0xED takes 0x80...0xBF).
Second3_SurrogatesAllowed(first, second) ==
    \/ first = 224 /\ second \in 160..191
    \/ first \in 225..239 /\ second \in 128..191

\* The match of lib.rs:121-127 on (first, second byte) of a 3-byte unit.
Second3(first, second) ==
    \/ first = 224 /\ second \in 160..191          \* (0xE0, 0xA0...0xBF)
    \/ first \in 225..236 /\ second \in 128..191   \* (0xE1...0xEC, 0x80...0xBF)
    \/ first = 237 /\ second \in 128..159          \* (0xED, 0x80...0x9F)
    \/ first \in 238..239 /\ second \in 128..191   \* (0xEE...0xEF, 0x80...0xBF)

\* Mutant of Second4: overlong forms pass (0xF0 takes 0x80...0xBF).
Second4_F0Overlong(first, second) ==
    \/ first \in 240..243 /\ second \in 128..191
    \/ first = 244 /\ second \in 128..143

\* Mutant of Second4: no upper bound after 0xF4 (code points above U+10FFFF pass).
Second4_NoUpperBound(first, second) ==
    \/ first = 240 /\ second \in 144..191
    \/ first \in 241..244 /\ second \in 128..191

\* The match of lib.rs:133-138 on (first, second byte) of a 4-byte unit.
Second4(first, second) ==
    \/ first = 240 /\ second \in 144..191          \* (0xF0, 0x90...0xBF)
    \/ first \in 241..243 /\ second \in 128..191   \* (0xF1...0xF3, 0x80...0xBF)
    \/ first = 244 /\ second \in 128..143          \* (0xF4, 0x80...0x8F)

\* Mutant of Width2: a missing second byte is reported as an invalid byte.
Width2_TruncatedIsInvalid(v, old_offset) ==
    IF old_offset + 1 >= Len(v) THEN Utf8ErrorImpl(old_offset, Some(1))
    ELSE IF ~IsTail(At(v, old_offset + 1)) THEN Utf8ErrorImpl(old_offset, Some(1))
    ELSE Continue(old_offset + 2)

\* lib.rs:117-119, w = 2.  Each `next!()` is `index += 1`, err!(None) when
\* index >= len, else v[index]; old_offset is the index the iteration began at.
Width2(v, old_offset) ==
    IF old_offset + 1 >= Len(v) THEN Utf8ErrorImpl(old_offset, None)
    ELSE IF ~IsTail(At(v, old_offset + 1)) THEN Utf8ErrorImpl(old_offset, Some(1))
    ELSE Continue(old_offset + 2)

\* Mutant of Width3: err! reports the current index instead of old_offset.
Width3_ErrAtIndex(v, old_offset) ==
    IF old_offset + 1 >= Len(v) THEN Utf8ErrorImpl(old_offset + 1, None)
    ELSE IF ~Second3(At(v, old_offset), At(v, old_offset + 1))
         THEN Utf8ErrorImpl(old_offset + 1, Some(1))
    ELSE IF old_offset + 2 >= Len(v) THEN Utf8ErrorImpl(old_offset + 2, None)
    ELSE IF ~IsTail(At(v, old_offset + 2)) THEN Utf8ErrorImpl(old_offset + 2, Some(2))
    ELSE Continue(old_offset + 3)

\* lib.rs:120-131, w = 3.
Width3(v, old_offset) ==
    IF old_offset + 1 >= Len(v) THEN Utf8ErrorImpl(old_offset, None)
    ELSE IF ~Second3(At(v, old_offset), At(v, old_offset + 1))
         THEN Utf8ErrorImpl(old_offset, Some(1))
    ELSE IF old_offset + 2 >= Len(v) THEN Utf8ErrorImpl(old_offset, None)
    ELSE IF ~IsTail(At(v, old_offset + 2)) THEN Utf8ErrorImpl(old_offset, Some(2))
    ELSE Continue(old_offset + 3)

\* Mutant of Width4: error_len counts the offending byte too.
Width4_CountsOffendingByte(v, old_offset) ==
    IF old_offset + 1 >= Len(v) THEN Utf8ErrorImpl(old_offset, None)
    ELSE IF ~Second4(At(v, old_offset), At(v, old_offset + 1))
         THEN Utf8ErrorImpl(old_offset, Some(2))
    ELSE IF old_offset + 2 >= Len(v) THEN Utf8ErrorImpl(old_offset, None)
    ELSE IF ~IsTail(At(v, old_offset + 2)) THEN Utf8ErrorImpl(old_offset, Some(3))
    ELSE IF old_offset + 3 >= Len(v) THEN Utf8ErrorImpl(old_offset, None)
    ELSE IF ~IsTail(At(v, old_offset + 3)) THEN Utf8ErrorImpl(old_offset, Some(4))
    ELSE Continue(old_offset + 4)

\* Mutant of Width4: a missing fourth byte is reported as an invalid third byte.
Width4_TruncatedFourthIsInvalid(v, old_offset) ==
    IF old_offset + 1 >= Len(v) THEN Utf8ErrorImpl(old_offset, None)
    ELSE IF ~Second4(At(v, old_offset), At(v, old_offset + 1))
         THEN Utf8ErrorImpl(old_offset, Some(1))
    ELSE IF old_offset + 2 >= Len(v) THEN Utf8ErrorImpl(old_offset, None)
    ELSE IF ~IsTail(At(v, old_offset + 2)) THEN Utf8ErrorImpl(old_offset, Some(2))
    ELSE IF old_offset + 3 >= Len(v) THEN Utf8ErrorImpl(old_offset, Some(3))
    ELSE IF ~IsTail(At(v, old_offset + 3)) THEN Utf8ErrorImpl(old_offset, Some(3))
    ELSE Continue(old_offset + 4)

\* lib.rs:132-145, w = 4.
Width4(v, old_offset) ==
    IF old_offset + 1 >= Len(v) THEN Utf8ErrorImpl(old_offset, None)
    ELSE IF ~Second4(At(v, old_offset), At(v, old_offset + 1))
         THEN Utf8ErrorImpl(old_offset, Some(1))
    ELSE IF old_offset + 2 >= Len(v) THEN Utf8ErrorImpl(old_offset, None)
    ELSE IF ~IsTail(At(v, old_offset + 2)) THEN Utf8ErrorImpl(old_offset, Some(2))
    ELSE IF old_offset + 3 >= Len(v) THEN Utf8ErrorImpl(old_offset, None)
    ELSE IF ~IsTail(At(v, old_offset + 3)) THEN Utf8ErrorImpl(old_offset, Some(3))
    ELSE Continue(old_offset + 4)

\* Mutant of MultiByte: a byte of width 0 is stepped over instead of rejected.
MultiByte_InvalidLeadSkipped(v, old_offset) ==
    LET w == At(UTF8_CHAR_WIDTH, At(v, old_offset)) IN
    CASE w = 2 -> Width2(v, old_offset)
      [] w = 3 -> Width3(v, old_offset)
      [] w = 4 -> Width4(v, old_offset)
      [] OTHER -> Continue(old_offset + 1)

\* lib.rs:97-148: the branch `first >= 128`.
MultiByte(v, old_offset) ==
    LET w == At(UTF8_CHAR_WIDTH, At(v, old_offset)) IN
    CASE w = 2 -> Width2(v, old_offset)
      [] w = 3 -> Width3(v, old_offset)
      [] w = 4 -> Width4(v, old_offset)
      [] OTHER -> Utf8ErrorImpl(old_offset, Some(1))

\* Mutant of blocks_end: the block is taken to be one word, not two.
blocks_end_OneWord(len, bytes) ==
    IF len >= bytes THEN len - bytes + 1 ELSE 0

\* lib.rs:70-74
blocks_end(len, bytes) ==
    IF len >= 2 * bytes THEN len - 2 * bytes + 1 ELSE 0

\* <*const u8>::align_offset: the bytes to add to addr to reach a multiple of align.
align_offset(addr, align) == (align - (addr % align)) % align

\* Mutant of SkipBlocks: only the first word of a block is tested (`zu` for `zu | zv`).
SkipBlocks_FirstWordOnly(v, bytes, i) ==
    LET loop[j \in 0..Len(v)] ==
            IF j < blocks_end(Len(v), bytes)
            THEN IF contains_nonascii(ReadWord(v, j, bytes))
                 THEN j
                 ELSE loop[j + 2 * bytes]
            ELSE j
    IN  loop[i]

\* lib.rs:159-170: the word-wise loop, two words per iteration.
SkipBlocks(v, bytes, i) ==
    LET loop[j \in 0..Len(v)] ==
            IF j < blocks_end(Len(v), bytes)
            THEN IF \/ contains_nonascii(ReadWord(v, j, bytes))
                    \/ contains_nonascii(ReadWord(v, j + bytes, bytes))
                 THEN j
                 ELSE loop[j + 2 * bytes]
            ELSE j
    IN  loop[i]

\* lib.rs:172-174: step from the point where the word-wise loop stopped.
SkipBytes(v, i) ==
    LET loop[j \in 0..Len(v)] ==
            IF j < Len(v) /\ At(v, j) < 128 THEN loop[j + 1] ELSE j
    IN  loop[i]

\* Mutant of AsciiCase: the unaligned branch forgets `index += 1`.
AsciiCase_NoAdvance(v, b, bytes, i) ==
    IF align_offset(b + i, bytes) = 0
    THEN SkipBytes(v, SkipBlocks(v, bytes, i))
    ELSE i

\* lib.rs:150-177: the ASCII case; b is the address of v[0] modulo bytes.
AsciiCase(v, b, bytes, i) ==
    IF align_offset(b + i, bytes) = 0
    THEN SkipBytes(v, SkipBlocks(v, bytes, i))
    ELSE i + 1

\* lib.rs:77-178: one iteration of the main loop, entered with i < len.
is_utf8_iter(v, b, bytes, i) ==
    IF At(v, i) >= 128
    THEN MultiByte(v, i)
    ELSE Continue(AsciiCase(v, b, bytes, i))

\* lib.rs:76-181: the main loop from index i on.
is_utf8_from(v, b, bytes, i) ==
    LET loop[j \in 0..Len(v)] ==
            IF j < Len(v)
            THEN LET r == is_utf8_iter(v, b, bytes, j) IN
                 IF r.tag = "Continue" THEN loop[r.next] ELSE r
            ELSE Ok
    IN  loop[i]

\* lib.rs:64-182
is_utf8(v, b, bytes) == is_utf8_from(v, b, bytes, 0)

(***************************************************************************)
(* hoehrmann.rs                                                            *)
(***************************************************************************)
UTF8_ACCEPT == 0
UTF8_REJECT == 12
\* The largest entry of UTF8D (a u8 of the transition table).
UTF8D_MAX == 96

UTF8D ==
  <<
     0,0,0,0,0,0,0,0,0,0,0,0,0,0,0,0,0,0,0,0,0,0,0,0,0,0,0,0,0,0,0,0,
     0,0,0,0,0,0,0,0,0,0,0,0,0,0,0,0,0,0,0,0,0,0,0,0,0,0,0,0,0,0,0,0,
     0,0,0,0,0,0,0,0,0,0,0,0,0,0,0,0,0,0,0,0,0,0,0,0,0,0,0,0,0,0,0,0,
     0,0,0,0,0,0,0,0,0,0,0,0,0,0,0,0,0,0,0,0,0,0,0,0,0,0,0,0,0,0,0,0,
     1,1,1,1,1,1,1,1,1,1,1,1,1,1,1,1,9,9,9,9,9,9,9,9,9,9,9,9,9,9,9,9,
     7,7,7,7,7,7,7,7,7,7,7,7,7,7,7,7,7,7,7,7,7,7,7,7,7,7,7,7,7,7,7,7,
     8,8,2,2,2,2,2,2,2,2,2,2,2,2,2,2,2,2,2,2,2,2,2,2,2,2,2,2,2,2,2,2,
     10,3,3,3,3,3,3,3,3,3,3,3,3,4,3,3,11,6,6,6,5,8,8,8,8,8,8,8,8,8,8,8,
     0,12,24,36,60,96,84,12,12,12,48,72,12,12,12,12,12,12,12,12,12,12,12,12,
     12,0,12,12,12,12,12,0,12,0,12,12,12,24,12,12,12,12,12,24,12,24,12,12,
     12,12,12,12,12,12,12,24,12,12,12,12,12,24,12,12,12,12,12,12,12,24,12,12,
     12,12,12,12,12,12,12,36,12,36,12,12,12,36,12,12,12,12,12,36,12,36,12,12,
     12,36,12,12,12,12,12,12,12,12,12,12
  >>

\* Mutant of decode: the index leaves out the 256 entries of the class table.
decode_NoOffset(state, byte) == At(UTF8D, state + At(UTF8D, byte))

\* hoehrmann.rs:33-35
decode(state, byte) == At(UTF8D, 256 + state + At(UTF8D, byte))

\* Mutant of hoehrmann_iter: on ACCEPT first_not_ok is set to i instead of i + 1.
hoehrmann_iter_OffByOne(v, i, state, fno) ==
    LET t == decode(state, At(v, i)) IN
    CASE t = UTF8_ACCEPT -> [tag |-> "Continue", s |-> t, first_not_ok |-> i]
      [] t = UTF8_REJECT -> Utf8ErrorImpl(fno, Some(1))
      [] OTHER -> [tag |-> "Continue", s |-> t, first_not_ok |-> fno]

\* hoehrmann.rs:42-47: one iteration of the for loop, at i < len.
hoehrmann_iter(v, i, state, fno) ==
    LET t == decode(state, At(v, i)) IN
    CASE t = UTF8_ACCEPT -> [tag |-> "Continue", s |-> t, first_not_ok |-> i + 1]
      [] t = UTF8_REJECT -> Utf8ErrorImpl(fno, Some(1))
      [] OTHER -> [tag |-> "Continue", s |-> t, first_not_ok |-> fno]

\* Mutant of hoehrmann_end: input that ends inside a unit is accepted.
hoehrmann_end_TruncatedIsOk(state, fno) ==
    IF state = UTF8_REJECT THEN Utf8ErrorImpl(fno, None) ELSE Ok

\* Mutant of hoehrmann_end: input that ends inside a unit is reported as an invalid byte.
hoehrmann_end_TruncatedIsInvalid(state, fno) ==
    IF state = UTF8_ACCEPT THEN Ok ELSE Utf8ErrorImpl(fno, Some(1))

\* hoehrmann.rs:49-52: the match after the loop.
hoehrmann_end(state, fno) ==
    IF state = UTF8_ACCEPT THEN Ok ELSE Utf8ErrorImpl(fno, None)

\* hoehrmann.rs:41-52 from index i on, in state `state` with first_not_ok = fno.
hoehrmann_from(v, i, state, fno) ==
    LET loop[j \in 0..Len(v), st \in 0..UTF8D_MAX, f \in 0..Len(v)] ==
            IF j < Len(v)
            THEN LET r == hoehrmann_iter(v, j, st, f) IN
                 IF r.tag = "Continue" THEN loop[j + 1, r.s, r.first_not_ok] ELSE r
            ELSE hoehrmann_end(st, f)
    IN  loop[i, state, fno]

\* hoehrmann.rs:38-53
hoehrmann_is_utf8(v) == hoehrmann_from(v, 0, UTF8_ACCEPT, 0)

(***************************************************************************)
(* ascii.rs                                                                *)
(***************************************************************************)
\* Result<(), usize>
AsciiErr(i) == [tag |-> "Err", index |-> i]

\* Mutant of is_ascii: `*self <= 128`.
is_ascii_Le128(b) == b <= 128

\* u8::is_ascii: `*self & 128 == 0`
is_ascii(b) == And8[b, 128] = 0

\* ascii.rs:7-9: one iteration of the enumerate loop, at i < len.
is_ascii_scalar_iter(v, i) ==
    IF ~is_ascii(At(v, i)) THEN AsciiErr(i) ELSE Continue(i + 1)

is_ascii_scalar_from(v, i) ==
    LET loop[j \in 0..Len(v)] ==
            IF j < Len(v)
            THEN LET r == is_ascii_scalar_iter(v, j) IN
                 IF r.tag = "Continue" THEN loop[r.next] ELSE r
            ELSE Ok
    IN  loop[i]

\* ascii.rs:6-11
is_ascii_scalar(v) == is_ascii_scalar_from(v, 0)

\* The slice v[i..].
SliceFrom(v, i) == SubSeq(v, i + 1, Len(v))

\* Result::map_err(|e| e + i)
map_err_add(r, i) == IF r.tag = "Err" THEN AsciiErr(r.index + i) ELSE r

\* ascii.rs:29, 54, 78: the scalar scan of the rest, its index moved back by i.
ScalarTail(v, i) == map_err_add(is_ascii_scalar(SliceFrom(v, i)), i)

\* A vector of `lanes` bytes loaded from v[i..], unaligned.
Load(v, i, lanes) == [k \in 1..lanes |-> At(v, i + k - 1)]

\* u8x16::splat(b), _mm_set1_epi8(b), _mm256_set1_epi8(b)
splat(b, lanes) == [k \in 1..lanes |-> b]

\* Lane-wise `a & m`
VecAnd(a, m) == [k \in DOMAIN a |-> And8[a[k], m[k]]]

\* x.eq(zero).all()
AllEqual(a, z) == \A k \in DOMAIN a : a[k] = z[k]

\* _mm_testz_si128(a, m), _mm256_testz_si256(a, m): 1 when a & m is all zero, else 0.
testz(a, m) == IF \A k \in DOMAIN a : And8[a[k], m[k]] = 0 THEN 1 ELSE 0

\* u8x16::lanes()
Lanes128 == 16
\* Bytes of a __m256i.
Lanes256 == 32

\* Mutant of is_ascii_vector128_iter: the second vector of the block is not tested.
is_ascii_vector128_iter_FirstOnly(v, i) ==
    LET v128 == splat(128, Lanes128)
        zero == splat(0, Lanes128)
        a == VecAnd(Load(v, i, Lanes128), v128)
    IN  IF ~AllEqual(a, zero)
        THEN [tag |-> "Break"]
        ELSE Continue(i + Lanes128 * 2)

\* ascii.rs:19-28: one iteration of the block loop of is_ascii_vector128, at i + 32 <= len.
is_ascii_vector128_iter(v, i) ==
    LET v128 == splat(128, Lanes128)
        zero == splat(0, Lanes128)
        a == VecAnd(Load(v, i, Lanes128), v128)
        b == VecAnd(Load(v, i + Lanes128, Lanes128), v128)
    IN  IF ~AllEqual(a, zero) \/ ~AllEqual(b, zero)
        THEN [tag |-> "Break"]
        ELSE Continue(i + Lanes128 * 2)

is_ascii_vector128_from(v, i) ==
    LET loop[j \in 0..Len(v)] ==
            IF j + Lanes128 * 2 <= Len(v)
            THEN LET r == is_ascii_vector128_iter(v, j) IN
                 IF r.tag = "Continue" THEN loop[r.next] ELSE ScalarTail(v, j)
            ELSE ScalarTail(v, j)
    IN  loop[i]

\* ascii.rs:13-30
is_ascii_vector128(v) == is_ascii_vector128_from(v, 0)

\* ascii.rs:41-53: one iteration of the block loop of is_ascii_vector128_sse41, at i + 64 <= len.
is_ascii_vector128_sse41_iter(v, i) ==
    LET signbitmask == splat(128, Lanes128) IN
    IF \/ testz(Load(v, i, Lanes128), signbitmask) = 0
       \/ testz(Load(v, i + 16, Lanes128), signbitmask) = 0
       \/ testz(Load(v, i + 32, Lanes128), signbitmask) = 0
       \/ testz(Load(v, i + 48, Lanes128), signbitmask) = 0
    THEN [tag |-> "Break"]
    ELSE Continue(i + 64)

is_ascii_vector128_sse41_from(v, i) ==
    LET loop[j \in 0..Len(v)] ==
            IF j + 64 <= Len(v)
            THEN LET r == is_ascii_vector128_sse41_iter(v, j) IN
                 IF r.tag = "Continue" THEN loop[r.next] ELSE ScalarTail(v, j)
            ELSE ScalarTail(v, j)
    IN  loop[i]

\* ascii.rs:35-55, called on a CPU with SSE4.1.
is_ascii_vector128_sse41(v) == is_ascii_vector128_sse41_from(v, 0)

\* ascii.rs:65-77: one iteration of the block loop of is_ascii_vector256_avx, at i + 128 <= len.
is_ascii_vector256_avx_iter(v, i) ==
    LET signbitmask == splat(128, Lanes256) IN
    IF \/ testz(Load(v, i, Lanes256), signbitmask) = 0
       \/ testz(Load(v, i + 32, Lanes256), signbitmask) = 0
       \/ testz(Load(v, i + 64, Lanes256), signbitmask) = 0
       \/ testz(Load(v, i + 96, Lanes256), signbitmask) = 0
    THEN [tag |-> "Break"]
    ELSE Continue(i + 128)

is_ascii_vector256_avx_from(v, i) ==
    LET loop[j \in 0..Len(v)] ==
            IF j + 128 <= Len(v)
            THEN LET r == is_ascii_vector256_avx_iter(v, j) IN
                 IF r.tag = "Continue" THEN loop[r.next] ELSE ScalarTail(v, j)
            ELSE ScalarTail(v, j)
    IN  loop[i]

\* ascii.rs:59-79, called on a CPU with AVX.
is_ascii_vector256_avx(v) == is_ascii_vector256_avx_from(v, 0)

(***************************************************************************)
(* Inputs                                                                  *)
(***************************************************************************)
\* The sequences over S of at most n elements.
SeqsUpTo(S, n) == UNION {[1..k -> S] : k \in 0..n}

\* An ASCII run of n bytes: 7F 00 7F 00 ...
AsciiRun(n) == [k \in 1..n |-> IF k % 2 = 1 THEN 127 ELSE 0]

\* The width of the longest unit: the largest entry of UTF8_CHAR_WIDTH, the
\* last arm of the match on w.
MaxWidth == 4

\* What follows an ASCII run: a unit of each width; such a unit cut short; a
\* byte that violates the grammar in the place of each of its bytes.
UnitTails ==
    { <<194, 128>>, <<224, 160, 128>>, <<240, 144, 128, 128>>,     \* units
      <<194>>, <<224, 160>>, <<240, 144>>, <<240, 144, 128>>,      \* cut short
      <<128>>, <<192, 128>>, <<245, 128>>,                         \* no first byte
      <<194, 0>>, <<224, 128, 128>>, <<237, 160, 128>>,            \* second byte
      <<240, 128, 128, 128>>, <<244, 144, 128, 128>>,
      <<224, 160, 0>>, <<240, 144, 192>>,                          \* third byte
      <<240, 144, 128, 127>> }                                     \* fourth byte

\* Inputs of the validators: every short sequence over Bytes; every sequence of
\* MaxWidth bytes over Bytes that begins with E0 or more (the first byte of a
\* 3- or 4-byte unit, or F5-FF); and ASCII runs long enough for the word-wise
\* loop, followed by a short tail or by one of UnitTails.
Utf8Input(v) ==
    \/ \E k \in 0..MaxLen : v \in [1..k -> Bytes]
    \/ \E first \in {b \in Bytes : b >= 224} :
           \E rest \in [1..(MaxWidth - 1) -> Bytes] : v = <<first>> \o rest
    \/ \E n \in 1..MaxRun : \E t \in SeqsUpTo(Bytes, MaxTail) \cup UnitTails :
           v = AsciiRun(n) \o t

\* Inputs of the ASCII scanners: n ASCII bytes but for the byte 0x80 at index p
\* (all ASCII when p >= n); and every short sequence over 00, 7F, 80, FF.
AsciiInput(n, p) ==
    [k \in 1..n |-> IF k - 1 = p THEN 128 ELSE IF k % 2 = 1 THEN 127 ELSE 0]

AsciiInputs(len, short) ==
    {AsciiInput(n, p) : n \in 0..len, p \in 0..len}
    \cup SeqsUpTo({0, 127, 128, 255}, short)

WordSizes == {4, 8}
Scanners == {"scalar", "vector128", "sse41", "avx"}

(***************************************************************************)
(* Spec: the two validators applied to an input                            *)
(***************************************************************************)
Idle ==
    /\ fn = "none" /\ pc = "idle" /\ base = 0 /\ usize_bytes = 8
    /\ index = 0 /\ s = 0 /\ first_not_ok = 0 /\ iters = 0

Init ==
    /\ Utf8Input(x)
    /\ g_res = NotCalled
    /\ d_res = NotCalled
    /\ a_res = [f \in Scanners |-> NotCalled]
    /\ Idle

\* A call of lib.rs is_utf8 on x, the slice at any address and with either word size.
CallIsUtf8 ==
    /\ g_res = NotCalled
    /\ \E bytes \in WordSizes : \E b \in 0..(bytes - 1) :
           g_res' = is_utf8(x, b, bytes)
    /\ UNCHANGED <<x, d_res, a_res, locals>>

\* A call of hoehrmann.rs is_utf8 on x.
CallHoehrmann ==
    /\ d_res = NotCalled
    /\ d_res' = hoehrmann_is_utf8(x)
    /\ UNCHANGED <<x, g_res, a_res, locals>>

Next == CallIsUtf8 \/ CallHoehrmann

Spec == Init /\ [][Next]_vars

(***************************************************************************)
(* SpecAscii: the four ASCII scanners applied to an input                  *)
(***************************************************************************)
InitAscii ==
    /\ x \in AsciiInputs(MaxAsciiLen, MaxLen)
    /\ g_res = NotCalled
    /\ d_res = NotCalled
    /\ a_res = [f \in Scanners |-> NotCalled]
    /\ Idle

CallScalar ==
    /\ a_res["scalar"] = NotCalled
    /\ a_res' = [a_res EXCEPT !["scalar"] = is_ascii_scalar(x)]
    /\ UNCHANGED <<x, g_res, d_res, locals>>

CallVector128 ==
    /\ a_res["vector128"] = NotCalled
    /\ a_res' = [a_res EXCEPT !["vector128"] = is_ascii_vector128(x)]
    /\ UNCHANGED <<x, g_res, d_res, locals>>

CallSse41 ==
    /\ a_res["sse41"] = NotCalled
    /\ a_res' = [a_res EXCEPT !["sse41"] = is_ascii_vector128_sse41(x)]
    /\ UNCHANGED <<x, g_res, d_res, locals>>

CallAvx ==
    /\ a_res["avx"] = NotCalled
    /\ a_res' = [a_res EXCEPT !["avx"] = is_ascii_vector256_avx(x)]
    /\ UNCHANGED <<x, g_res, d_res, locals>>

NextAscii == CallScalar \/ CallVector128 \/ CallSse41 \/ CallAvx

SpecAscii == InitAscii /\ [][NextAscii]_vars

(***************************************************************************)
(* SpecSteps: one function executed on an input, one loop iteration per    *)
(* step                                                                    *)
(***************************************************************************)
Functions == {"is_utf8", "hoehrmann", "scalar", "vector128", "sse41", "avx"}

\* Stepped inputs: every short sequence over StepBytes; ASCII runs followed by
\* nothing or by one of UnitTails; and scanner inputs around the block sizes
\* 32, 64 and 128.
StepBytes == {127, 128, 194, 224, 240}

StepLens(len) == {0, 1, 31, 32, 33, 64, 65, 128, len}

StepInputs(len, run, asciilen) ==
    SeqsUpTo(StepBytes, len)
    \cup {AsciiRun(n) \o t : n \in 0..run, t \in UnitTails \cup {<<>>}}
    \cup {AsciiInput(n, p) : n \in StepLens(asciilen), p \in StepLens(asciilen)}

InitSteps ==
    /\ x = <<>>
    /\ fn = "none"
    /\ pc = "start"
    /\ usize_bytes = 8
    /\ base = 0
    /\ index = 0
    /\ s = UTF8_ACCEPT
    /\ first_not_ok = 0
    /\ iters = 0
    /\ g_res = NotCalled
    /\ d_res = NotCalled
    /\ a_res = [f \in Scanners |-> NotCalled]

\* A function is called on an input; lib.rs is_utf8 finds the slice at any
\* address, with either word size.
Call ==
    /\ pc = "start"
    /\ x' \in StepInputs(MaxStepLen, MaxRun, MaxAsciiLen)
    /\ fn' \in Functions
    /\ usize_bytes' \in (IF fn' = "is_utf8" THEN WordSizes ELSE {8})
    /\ base' \in (IF fn' = "is_utf8" THEN 0..(usize_bytes' - 1) ELSE {0})
    /\ pc' = "loop"
    /\ UNCHANGED <<results, index, s, first_not_ok, iters>>

\* lib.rs:76-179: one iteration of `while index < len`.
IsUtf8Iter ==
    /\ fn = "is_utf8" /\ pc = "loop" /\ index < Len(x)
    /\ LET r == is_utf8_iter(x, base, usize_bytes, index) IN
       IF r.tag = "Continue"
       THEN index' = r.next /\ UNCHANGED <<g_res, pc>>
       ELSE g_res' = r /\ pc' = "done" /\ UNCHANGED index
    /\ iters' = iters + 1
    /\ UNCHANGED <<x, d_res, a_res, fn, base, usize_bytes, s, first_not_ok>>

\* lib.rs:181: the loop is left, Ok(()).
IsUtf8Exit ==
    /\ fn = "is_utf8" /\ pc = "loop" /\ ~(index < Len(x))
    /\ g_res' = Ok /\ pc' = "done"
    /\ UNCHANGED <<x, d_res, a_res, fn, base, usize_bytes, index, s, first_not_ok, iters>>

\* hoehrmann.rs:41-48: one iteration of `for i in 0..x.len()`.
HoehrmannIter ==
    /\ fn = "hoehrmann" /\ pc = "loop" /\ index < Len(x)
    /\ LET r == hoehrmann_iter(x, index, s, first_not_ok) IN
       IF r.tag = "Continue"
       THEN /\ s' = r.s /\ first_not_ok' = r.first_not_ok /\ index' = index + 1
            /\ UNCHANGED <<d_res, pc>>
       ELSE /\ d_res' = r /\ pc' = "done"
            /\ UNCHANGED <<s, first_not_ok, index>>
    /\ iters' = iters + 1
    /\ UNCHANGED <<x, g_res, a_res, fn, base, usize_bytes>>

\* hoehrmann.rs:49-52: the match after the loop.
HoehrmannExit ==
    /\ fn = "hoehrmann" /\ pc = "loop" /\ ~(index < Len(x))
    /\ d_res' = hoehrmann_end(s, first_not_ok) /\ pc' = "done"
    /\ UNCHANGED <<x, g_res, a_res, fn, base, usize_bytes, index, s, first_not_ok, iters>>

\* ascii.rs:7-9: one iteration of the loop of is_ascii_scalar.
ScalarIter ==
    /\ fn = "scalar" /\ pc = "loop" /\ index < Len(x)
    /\ LET r == is_ascii_scalar_iter(x, index) IN
       IF r.tag = "Continue"
       THEN index' = r.next /\ UNCHANGED <<a_res, pc>>
       ELSE a_res' = [a_res EXCEPT !["scalar"] = r] /\ pc' = "done" /\ UNCHANGED index
    /\ iters' = iters + 1
    /\ UNCHANGED <<x, g_res, d_res, fn, base, usize_bytes, s, first_not_ok>>

\* ascii.rs:10: Ok(()).
ScalarExit ==
    /\ fn = "scalar" /\ pc = "loop" /\ ~(index < Len(x))
    /\ a_res' = [a_res EXCEPT !["scalar"] = Ok] /\ pc' = "done"
    /\ UNCHANGED <<x, g_res, d_res, fn, base, usize_bytes, index, s, first_not_ok, iters>>

\* The effect of one block-loop iteration with result r: go on, or break to the scalar tail.
BlockStep(r) ==
    /\ IF r.tag = "Continue"
       THEN index' = r.next /\ pc' = "loop"
       ELSE index' = index /\ pc' = "tail"
    /\ iters' = iters + 1
    /\ UNCHANGED <<x, results, fn, base, usize_bytes, s, first_not_ok>>

\* ascii.rs:19-28
Vector128Iter ==
    /\ fn = "vector128" /\ pc = "loop" /\ index + Lanes128 * 2 <= Len(x)
    /\ BlockStep(is_ascii_vector128_iter(x, index))

\* ascii.rs:41-53
Sse41Iter ==
    /\ fn = "sse41" /\ pc = "loop" /\ index + 64 <= Len(x)
    /\ BlockStep(is_ascii_vector128_sse41_iter(x, index))

\* ascii.rs:65-77
AvxIter ==
    /\ fn = "avx" /\ pc = "loop" /\ index + 128 <= Len(x)
    /\ BlockStep(is_ascii_vector256_avx_iter(x, index))

\* The condition of the block loop of the vectorised scanner f.
BlockLoopCond(f, v, i) ==
    CASE f = "vector128" -> i + Lanes128 * 2 <= Len(v)
      [] f = "sse41" -> i + 64 <= Len(v)
      [] f = "avx" -> i + 128 <= Len(v)

\* ascii.rs:29, 54, 78: the block loop is left; the scalar scan of x[i..] is the result.
VectorTail ==
    /\ fn \in {"vector128", "sse41", "avx"}
    /\ pc = "tail" \/ (pc = "loop" /\ ~BlockLoopCond(fn, x, index))
    /\ a_res' = [a_res EXCEPT ![fn] = ScalarTail(x, index)]
    /\ pc' = "done"
    /\ UNCHANGED <<x, g_res, d_res, fn, base, usize_bytes, index, s, first_not_ok, iters>>

NextSteps ==
    \/ Call
    \/ IsUtf8Iter \/ IsUtf8Exit
    \/ HoehrmannIter \/ HoehrmannExit
    \/ ScalarIter \/ ScalarExit
    \/ Vector128Iter \/ Sse41Iter \/ AvxIter \/ VectorTail

SpecSteps == InitSteps /\ [][NextSteps]_vars

\* A call, once begun, runs to its return: no step of it waits for anything.
FairSpecSteps == SpecSteps /\ WF_vars(NextSteps)

(***************************************************************************)
(* SpecUnits: a validator executed, one loop iteration per step, on a unit *)
(* or an attempt at one                                                    *)
(***************************************************************************)
\* The bytes tried as third and fourth byte: both ends of 00-7F, of the ranges
\* of 80-BF the DFA's classes tell apart, and of C0-FF.
TailBytes == {0, 127, 128, 143, 144, 159, 160, 191, 192, 255}

\* A first byte >= 0x80 of Bytes followed by at most MaxWidth - 1 bytes: any
\* second byte of Bytes, third and fourth bytes of TailBytes.
UnitBodies ==
    LET Leads == {b \in Bytes : b >= 128} IN
    {<<l>> : l \in Leads}
    \cup {<<l, b2>> : l \in Leads, b2 \in Bytes}
    \cup {<<l, b2, b3>> : l \in Leads, b2 \in Bytes, b3 \in TailBytes}
    \cup {<<l, b2, b3, b4>> : l \in Leads, b2 \in Bytes, b3 \in TailBytes, b4 \in TailBytes}

\* A validator is called on an ASCII run of at most MaxPre bytes followed by
\* nothing or by one of UnitBodies; lib.rs is_utf8 finds the slice aligned or
\* one byte off.
CallUnit ==
    /\ pc = "start"
    /\ \E n \in 0..MaxPre : \E u \in UnitBodies \cup {<<>>} : x' = AsciiRun(n) \o u
    /\ fn' \in {"is_utf8", "hoehrmann"}
    /\ usize_bytes' = 8
    /\ base' \in (IF fn' = "is_utf8" THEN {0, 1} ELSE {0})
    /\ pc' = "loop"
    /\ UNCHANGED <<results, index, s, first_not_ok, iters>>

NextUnits ==
    \/ CallUnit
    \/ IsUtf8Iter \/ IsUtf8Exit
    \/ HoehrmannIter \/ HoehrmannExit

SpecUnits == InitSteps /\ [][NextUnits]_vars

(***************************************************************************)
(* The RFC 3629 grammar (quoted in lib.rs:110-115), as data: each form of  *)
(* a unit is the sequence of the byte ranges <<low, high>> of its bytes.   *)
(***************************************************************************)
RFC_Tail == <<128, 191>>

RFC_Forms ==
    { << <<0, 127>> >>,                                  \* UTF8-1 = %x00-7F
      << <<194, 223>>, RFC_Tail >>,                      \* UTF8-2 = %xC2-DF tail
      << <<224, 224>>, <<160, 191>>, RFC_Tail >>,        \* UTF8-3 = %xE0 %xA0-BF tail
      << <<225, 236>>, RFC_Tail, RFC_Tail >>,            \*        / %xE1-EC 2( tail )
      << <<237, 237>>, <<128, 159>>, RFC_Tail >>,        \*        / %xED %x80-9F tail
      << <<238, 239>>, RFC_Tail, RFC_Tail >>,            \*        / %xEE-EF 2( tail )
      << <<240, 240>>, <<144, 191>>, RFC_Tail, RFC_Tail >>,  \* UTF8-4 = %xF0 %x90-BF 2( tail )
      << <<241, 243>>, RFC_Tail, RFC_Tail, RFC_Tail >>,      \*        / %xF1-F3 3( tail )
      << <<244, 244>>, <<128, 143>>, RFC_Tail, RFC_Tail >> } \*        / %xF4 %x80-8F 2( tail )

\* u is the beginning (the first Len(u) bytes) of a unit of form f.
RFC_Begins(u, f) ==
    /\ Len(u) <= Len(f)
    /\ \A k \in 1..Len(u) : f[k][1] <= u[k] /\ u[k] <= f[k][2]

\* u is one unit of the grammar.
RFC_IsUnit(u) == \E f \in RFC_Forms : Len(f) = Len(u) /\ RFC_Begins(u, f)

\* u is a non-empty proper prefix of a unit of the grammar.
RFC_IsProperPrefix(u) == \E f \in RFC_Forms : 0 < Len(u) /\ Len(u) < Len(f) /\ RFC_Begins(u, f)

\* The bytes v[i..j).
Slice(v, i, j) == SubSeq(v, i + 1, j)

\* A unit of the grammar starts at index i of v and lies within v.
RFC_UnitAt(v, i) == \E k \in 1..4 : i + k <= Len(v) /\ RFC_IsUnit(Slice(v, i, i + k))

\* v is a concatenation of zero or more units of the grammar.
RFC_WellFormed(v) ==
    LET wf[i \in 0..Len(v)] ==
            \/ i = Len(v)
            \/ \E k \in 1..4 : i + k <= Len(v) /\ RFC_IsUnit(Slice(v, i, i + k)) /\ wf[i + k]
    IN  wf[0]

BothCalled == g_res # NotCalled /\ d_res # NotCalled
IsErr(r) == r.tag = "Err"

(***************************************************************************)
(* Claims                                                                  *)
(***************************************************************************)

\* C1: for every byte sequence the grammar-based validator and the DFA
\* validator agree on the verdict: one returns Ok exactly when the other does.
C1_VerdictsAgree ==
    BothCalled => ((g_res = Ok) <=> (d_res = Ok))

\* C1 witness: both validators have rejected F4 90 xx xx, a code point above U+10FFFF.
C1_Witness ==
    /\ BothCalled /\ IsErr(g_res) /\ IsErr(d_res)
    /\ Len(x) = 4 /\ x[1] = 244 /\ x[2] = 144

\* C2: when both validators report an error, the two error records carry the
\* same valid_up_to, even when their error_len values differ.
C2_SameValidUpTo ==
    (BothCalled /\ IsErr(g_res) /\ IsErr(d_res)) => g_res.valid_up_to = d_res.valid_up_to

\* C2 witness: both report an error after a valid prefix, with different error_len.
C2_Witness ==
    /\ BothCalled /\ IsErr(g_res) /\ IsErr(d_res)
    /\ g_res.valid_up_to > 0
    /\ g_res.error_len = Some(2) /\ d_res.error_len = Some(1)

\* C3: the grammar-based validator returns Ok for a byte sequence exactly when
\* the sequence is a concatenation of zero or more units of the RFC 3629 grammar.
C3_OkIffWellFormed ==
    g_res # NotCalled => ((g_res = Ok) <=> RFC_WellFormed(x))

\* C3 witness: the last code point, F4 8F BF BF, has been accepted.
C3_Witness ==
    g_res = Ok /\ x = <<244, 143, 191, 191>>

\* C4: an error record of either validator with valid_up_to = v has
\* 0 <= v < len(x), the validator returns Ok on the prefix x[0..v), which is
\* well-formed, and no unit of the grammar starts at v within x.
C4_ValidUpTo ==
    /\ (g_res # NotCalled /\ IsErr(g_res)) =>
          LET v == g_res.valid_up_to IN
          /\ 0 <= v /\ v < Len(x)
          /\ \A bytes \in WordSizes : \A b \in 0..(bytes - 1) :
                 is_utf8(Slice(x, 0, v), b, bytes) = Ok
          /\ RFC_WellFormed(Slice(x, 0, v))
          /\ ~RFC_UnitAt(x, v)
    /\ (d_res # NotCalled /\ IsErr(d_res)) =>
          LET v == d_res.valid_up_to IN
          /\ 0 <= v /\ v < Len(x)
          /\ hoehrmann_is_utf8(Slice(x, 0, v)) = Ok
          /\ RFC_WellFormed(Slice(x, 0, v))
          /\ ~RFC_UnitAt(x, v)

\* C4 witness: both validators report an error at index 3, after a 3-byte unit.
C4_Witness ==
    /\ BothCalled /\ IsErr(g_res) /\ IsErr(d_res)
    /\ g_res.valid_up_to = 3 /\ d_res.valid_up_to = 3
    /\ Len(x) = 4 /\ x[1] >= 224

\* C5: the grammar-based validator returns error_len = None exactly when the
\* bytes x[valid_up_to..len) are a non-empty proper prefix of a unit of the
\* grammar: never None after a byte that violates the grammar, never Some(n)
\* when the input only ran out.
C5_NoneIffTruncated ==
    (g_res # NotCalled /\ IsErr(g_res)) =>
        ((g_res.error_len = None)
            <=> RFC_IsProperPrefix(Slice(x, g_res.valid_up_to, Len(x))))

\* C5 witness: None for a 4-byte unit that lacks its last byte.
C5_Witness ==
    /\ g_res # NotCalled /\ IsErr(g_res)
    /\ g_res.error_len = None
    /\ Len(x) - g_res.valid_up_to = 3

\* The validation calls of the skip-and-retry loop from index i of v on, v[0] at
\* address b modulo bytes: validate the rest while bytes remain; on Some(n) skip
\* to valid_up_to + n and retry.
RetryCalls(v, b, bytes, i) ==
    LET calls[j \in 0..Len(v)] ==
            IF j = Len(v) THEN 0
            ELSE LET r == is_utf8(Slice(v, j, Len(v)), (b + j) % bytes, bytes) IN
                 IF IsErr(r) /\ r.error_len # None
                 THEN 1 + calls[j + r.valid_up_to + r.error_len[1]]
                 ELSE 1
    IN  calls[i]

C7_PrefixProperty ==
    g_res = Ok =>
        \A k \in 0..Len(x) : \A bytes \in WordSizes : \A b \in 0..(bytes - 1) :
            LET r == is_utf8(Slice(x, 0, k), b, bytes) IN
            r = Ok \/ (IsErr(r) /\ r.error_len = None)

\* C7 witness: a valid 4-byte unit, whose prefixes of 1, 2 and 3 bytes are truncated.
C7_Witness ==
    g_res = Ok /\ Len(x) = 4 /\ x[1] >= 240

AllScanned == \A f \in Scanners : a_res[f] # NotCalled

\* C8: for every byte sequence the four ASCII scanners return the identical
\* result, all Ok or all Err with the same index.
C8_ScannersAgree ==
    \A f \in Scanners : \A g \in Scanners :
        (a_res[f] # NotCalled /\ a_res[g] # NotCalled) => a_res[f] = a_res[g]

\* C8 witness: all four have found the first byte >= 0x80 past a whole 128-byte block.
C8_Witness ==
    /\ AllScanned
    /\ a_res["avx"] = AsciiErr(128)
    /\ Len(x) > 128

\* C9: is_ascii_scalar returns Ok exactly when every byte is below 0x80, and
\* otherwise Err(i) with i the index of the first byte >= 0x80: i is the largest
\* index for which the scanner returns Ok on x[0..i).
C9_ScalarFirstNonAscii ==
    LET r == a_res["scalar"] IN
    r # NotCalled =>
        /\ (r = Ok) <=> (\A k \in 1..Len(x) : x[k] < 128)
        /\ r # Ok =>
              /\ IsErr(r)
              /\ 0 <= r.index /\ r.index < Len(x)
              /\ \A j \in 0..(r.index - 1) : At(x, j) < 128
              /\ At(x, r.index) >= 128
              /\ is_ascii_scalar(Slice(x, 0, r.index)) = Ok
              /\ \A j \in (r.index + 1)..Len(x) : is_ascii_scalar(Slice(x, 0, j)) # Ok

\* C9 witness: Err(i) with ASCII bytes before index i and bytes after it.
C9_Witness ==
    /\ IsErr(a_res["scalar"])
    /\ a_res["scalar"].index > 0
    /\ a_res["scalar"].index + 1 < Len(x)

\* C10: every call terminates: the scan index never exceeds len, the loop runs
\* at most len times, every iteration after which the loop goes on has
\* strictly increased the index, and the call reaches its return.
C10_Terminates ==
    /\ [](index <= Len(x) /\ iters <= Len(x))
    /\ [][(pc = "loop" /\ pc' = "loop") => index' > index]_vars
    /\ <>(pc = "done")

\* C10 witness: lib.rs is_utf8 has returned after several iterations of its
\* main loop, on an input long enough for the word-wise loop.
C10_Witness ==
    /\ pc = "done" /\ fn = "is_utf8"
    /\ iters >= 3 /\ Len(x) >= 16

\* A step of the main loop of lib.rs is_utf8 is about to begin at index, a unit start.
AtUnitStart == fn = "is_utf8" /\ pc = "loop" /\ index < Len(x)

\* The step returns the error record (v, n).
Rejected(v, n) == pc' = "done" /\ g_res' = Utf8ErrorImpl(v, n)

\* The step accepts the unit: the loop goes on at index i.
Resumes(i) == pc' = "loop" /\ index' = i /\ g_res' = NotCalled

\* The top two bits of b are 10.
IsContinuation(b) == b \div 64 = 2

\* C11: at a unit start v with byte b >= 0x80: the width table gives no 2, 3
\* or 4 exactly for b in 80..C1 and F5..FF, and then the verdict is
\* Invalid{v, Some(1)} whatever follows; for b in C2..DF the verdict is
\* Invalid{v, None} when no next byte exists, Invalid{v, Some(1)} when the next
\* byte is no continuation byte, and otherwise scanning resumes at v + 2.
C11_InvalidLeadAndWidth2 ==
    [][(AtUnitStart /\ At(x, index) >= 128) =>
          LET v == index
              b == At(x, index)
              invalid == b \in 128..193 \/ b \in 245..255
          IN  /\ (At(UTF8_CHAR_WIDTH, b) \notin {2, 3, 4}) <=> invalid
              /\ invalid => Rejected(v, Some(1))
              /\ b \in 194..223 =>
                    IF v + 1 >= Len(x) THEN Rejected(v, None)
                    ELSE IF ~IsContinuation(At(x, v + 1)) THEN Rejected(v, Some(1))
                    ELSE Resumes(v + 2)
      ]_vars

\* C11 witness: after an ASCII byte, a first byte in C2..DF with no byte after it
\* has been answered with Invalid{1, None}.
C11_Witness ==
    /\ fn = "is_utf8" /\ pc = "done"
    /\ Len(x) = 2 /\ x[2] \in 194..223
    /\ g_res = Utf8ErrorImpl(1, None)

\* C12: at a unit start v with first byte in E0..EF: the second byte must lie in
\* A0..BF after E0, 80..BF after E1..EC, 80..9F after ED, 80..BF after EE..EF,
\* else Invalid{v, Some(1)}; the third byte must be a continuation byte, else
\* Invalid{v, Some(2)}; input that ends before the byte about to be examined
\* gives Invalid{v, None}; otherwise scanning resumes at v + 3.
C12_Width3 ==
    [][(AtUnitStart /\ At(x, index) \in 224..239) =>
          LET v == index
              b == At(x, index)
              legal2(c) == \/ b = 224 /\ c \in 160..191
                           \/ b \in 225..236 /\ c \in 128..191
                           \/ b = 237 /\ c \in 128..159
                           \/ b \in 238..239 /\ c \in 128..191
          IN  IF v + 1 >= Len(x) THEN Rejected(v, None)
              ELSE IF ~legal2(At(x, v + 1)) THEN Rejected(v, Some(1))
              ELSE IF v + 2 >= Len(x) THEN Rejected(v, None)
              ELSE IF At(x, v + 2) \notin 128..191 THEN Rejected(v, Some(2))
              ELSE Resumes(v + 3)
      ]_vars

\* C12 witness: ED 9F followed by a byte that is no continuation byte has been
\* answered with Invalid{0, Some(2)}.
C12_Witness ==
    /\ fn = "is_utf8" /\ pc = "done"
    /\ Len(x) >= 3 /\ x[1] = 237 /\ x[2] = 159
    /\ g_res = Utf8ErrorImpl(0, Some(2))

\* C13: at a unit start v with first byte in F0..F4: the second byte must lie in
\* 90..BF after F0, 80..BF after F1..F3, 80..8F after F4, else
\* Invalid{v, Some(1)}; a third byte that is no continuation byte gives
\* Invalid{v, Some(2)}, such a fourth byte Invalid{v, Some(3)}; input that ends
\* before the byte about to be examined gives Invalid{v, None}; otherwise
\* scanning resumes at v + 4.
C13_Width4 ==
    [][(AtUnitStart /\ At(x, index) \in 240..244) =>
          LET v == index
              b == At(x, index)
              legal2(c) == \/ b = 240 /\ c \in 144..191
                           \/ b \in 241..243 /\ c \in 128..191
                           \/ b = 244 /\ c \in 128..143
          IN  IF v + 1 >= Len(x) THEN Rejected(v, None)
              ELSE IF ~legal2(At(x, v + 1)) THEN Rejected(v, Some(1))
              ELSE IF v + 2 >= Len(x) THEN Rejected(v, None)
              ELSE IF At(x, v + 2) \notin 128..191 THEN Rejected(v, Some(2))
              ELSE IF v + 3 >= Len(x) THEN Rejected(v, None)
              ELSE IF At(x, v + 3) \notin 128..191 THEN Rejected(v, Some(3))
              ELSE Resumes(v + 4)
      ]_vars

\* C13 witness: after an ASCII byte, F4 8F BF followed by a byte that is no
\* continuation byte has been answered with Invalid{1, Some(3)}.
C13_Witness ==
    /\ fn = "is_utf8" /\ pc = "done"
    /\ Len(x) = 5 /\ x[2] = 244 /\ x[3] = 143 /\ x[4] = 191
    /\ g_res = Utf8ErrorImpl(1, Some(3))

\* The state of the DFA after the first k bytes of v, by the table alone.
DfaState(v, k) ==
    LET st[j \in 0..k] ==
            IF j = 0 THEN UTF8_ACCEPT ELSE decode(st[j - 1], At(v, j - 1))
    IN  st[k]

\* The number of bytes after which the DFA was last in ACCEPT, among the first k.
LastAccept(v, k) ==
    CHOOSE j \in 0..k :
        /\ DfaState(v, j) = UTF8_ACCEPT
        /\ \A m \in (j + 1)..k : DfaState(v, m) # UTF8_ACCEPT

\* The indices of the bytes of v whose transition lands on REJECT.
RejectedAt(v) == {j \in 0..(Len(v) - 1) : DfaState(v, j + 1) = UTF8_REJECT}

\* C14: the DFA validator starts in ACCEPT, consumes the bytes in order and is
\* never in REJECT when it takes a transition; it stops at the first byte whose
\* transition lands on REJECT with error_len = Some(1) and valid_up_to the index
\* just after the last byte that left it in ACCEPT (0 if none); with no such
\* byte it returns Ok exactly when the final state is ACCEPT, else that
\* valid_up_to with error_len = None.  Never Some(2) or Some(3).
C14_DfaVerdict ==
    fn = "hoehrmann" =>
        /\ pc = "loop" =>
              /\ s = DfaState(x, index)
              /\ s # UTF8_REJECT
              /\ first_not_ok = LastAccept(x, index)
              /\ iters = index
        /\ pc = "done" =>
              IF RejectedAt(x) # {}
              THEN LET r == CHOOSE j \in RejectedAt(x) : \A m \in RejectedAt(x) : j <= m IN
                   /\ d_res = Utf8ErrorImpl(LastAccept(x, r), Some(1))
                   /\ index = r /\ iters = r + 1
              ELSE /\ index = Len(x)
                   /\ d_res = IF DfaState(x, Len(x)) = UTF8_ACCEPT THEN Ok
                              ELSE Utf8ErrorImpl(LastAccept(x, Len(x)), None)
        /\ (pc = "done" /\ IsErr(d_res)) => d_res.error_len \in {None, Some(1)}

\* C14 witness: the DFA has stopped at a byte that lands on REJECT, with bytes
\* left unread, after a byte that left it in ACCEPT.
C14_Witness ==
    /\ fn = "hoehrmann" /\ pc = "done"
    /\ IsErr(d_res) /\ d_res.error_len = Some(1) /\ d_res.valid_up_to = 1
    /\ index + 1 < Len(x)

\* The classes the first 256 entries of UTF8D give to the bytes.
DfaClasses == {At(UTF8D, b) : b \in 0..255}

\* The states: ACCEPT, and every entry of the transition part of UTF8D.
DfaStates == {UTF8_ACCEPT} \cup {At(UTF8D, k) : k \in 256..(Len(UTF8D) - 1)}

\* The DFA begins in ACCEPT, which is 0, and REJECT, which is 12, is absorbing.
DfaAcceptReject ==
    /\ UTF8_ACCEPT = 0
    /\ UTF8_REJECT = 12
    /\ \A b \in 0..255 : decode(UTF8_REJECT, b) = UTF8_REJECT

\* The DFA validator is about to consume its first byte.
DfaAtStart == fn = "hoehrmann" /\ pc = "loop" /\ index = 0

\* C15 as stated: 12 states over 9 classes.  The class table maps the bytes onto
\* exactly 9 classes, the transition table has a row per state for 12 states,
\* state 0 is ACCEPT and initial, state 12 is REJECT and absorbing.
C15_TwelveStatesNineClasses ==
    fn = "hoehrmann" =>
        /\ Cardinality(DfaClasses) = 9
        /\ Cardinality(DfaStates) = 12
        /\ Len(UTF8D) - 256 = 12 * 9
        /\ DfaAcceptReject
        /\ DfaAtStart => s = UTF8_ACCEPT

\* The shape of UTF8D: 12 classes 0..11, 9 states 0, 12, ..., 96, a row of 12
\* entries for each of the 9 states, every transition leading to a state.
DfaNineByTwelve ==
    /\ Cardinality(DfaClasses) = 12
    /\ DfaClasses = 0..11
    /\ Cardinality(DfaStates) = 9
    /\ DfaStates = {12 * r : r \in 0..8}
    /\ Len(UTF8D) - 256 = 9 * 12
    /\ \A st \in DfaStates : \A b \in 0..255 : decode(st, b) \in DfaStates

\* C15, amended: the DFA is a machine of 9 states over 12 classes.  The class
\* table maps the bytes onto exactly 12 classes, the transition table has a row
\* per state for 9 states, state 0 is ACCEPT and initial, state 12 is REJECT
\* and absorbing, and the validator is only ever in one of the 9 states.
C15_NineStatesTwelveClasses ==
    /\ DfaNineByTwelve
    /\ DfaAcceptReject
    /\ DfaAtStart => s = UTF8_ACCEPT
    /\ fn = "hoehrmann" => s \in DfaStates

\* C15 witness: the validator is in state 96, the last row of the table.
C15_Witness ==
    /\ fn = "hoehrmann" /\ pc = "loop"
    /\ s = 96 /\ index > 0

\* The end of the ASCII run of v that begins at index i: the index of the first
\* byte >= 0x80 at or after i, or the end of v.
RunEnd(v, i) ==
    CHOOSE j \in i..Len(v) :
        /\ j = Len(v) \/ At(v, j) >= 128
        /\ \A k \in i..(j - 1) : At(v, k) < 128

\* C16 as stated: whenever the byte at the current position has its high bit
\* clear, that one step of the main loop skips the entire ASCII run, to the
\* first byte >= 0x80 or the end of input, for every alignment of the buffer.
C16_SkipsWholeRun ==
    [][(AtUnitStart /\ At(x, index) < 128) => Resumes(RunEnd(x, index))]_vars

\* C16, amended: whenever the byte at the current position has its high bit
\* clear, that one step of the main loop skips the entire ASCII run if the
\* current position is word-aligned, and advances by exactly one byte if it
\* is not.
C16_SkipsRunWhenAligned ==
    [][(AtUnitStart /\ At(x, index) < 128) =>
          IF (base + index) % usize_bytes = 0
          THEN Resumes(RunEnd(x, index))
          ELSE Resumes(index + 1)
      ]_vars

\* C16 witness: the first step, at an aligned position, has skipped a run of 16
\* bytes or more and stopped at a byte >= 0x80.
C16_Witness ==
    /\ fn = "is_utf8" /\ pc = "loop" /\ base = 0
    /\ iters = 1 /\ index >= 16
    /\ index < Len(x) /\ At(x, index) >= 128

\* The indices of the n bytes a read at index i covers.
Span(i, n) == i..(i + n - 1)

\* Every index of S is an index of v.
InBounds(S, v) == S \subseteq 0..(Len(v) - 1)

\* lib.rs:159-170: the indices the word-wise loop entered at i reads through
\* `*block` and `*block.offset(1)`.  What a read outside v yields is undefined,
\* so the indices are collected up to and including the first such read.
WordLoopReads(v, bytes, i) ==
    LET reads[j \in 0..Len(v)] ==
            IF j < blocks_end(Len(v), bytes)
            THEN Span(j, 2 * bytes) \cup
                 (IF /\ InBounds(Span(j, 2 * bytes), v)
                     /\ ~contains_nonascii(ReadWord(v, j, bytes))
                     /\ ~contains_nonascii(ReadWord(v, j + bytes, bytes))
                  THEN reads[j + 2 * bytes]
                  ELSE {})
            ELSE {}
    IN  reads[i]

\* The indices of x that the next loop iteration reads without a bounds check:
\* the words of lib.rs:161-164, `x.get_unchecked(i)` of hoehrmann.rs:42, and
\* the vector loads of ascii.rs:20-21, 42-45 and 66-69.
UncheckedReads ==
    CASE fn = "is_utf8" /\ pc = "loop" /\ index < Len(x) ->
             IF At(x, index) < 128 /\ align_offset(base + index, usize_bytes) = 0
             THEN WordLoopReads(x, usize_bytes, index)
             ELSE {}
      [] fn = "hoehrmann" /\ pc = "loop" /\ index < Len(x) -> {index}
      [] fn = "vector128" /\ pc = "loop" /\ BlockLoopCond(fn, x, index) ->
             Span(index, 2 * Lanes128)
      [] fn = "sse41" /\ pc = "loop" /\ BlockLoopCond(fn, x, index) ->
             Span(index, 4 * Lanes128)
      [] fn = "avx" /\ pc = "loop" /\ BlockLoopCond(fn, x, index) ->
             Span(index, 4 * Lanes256)
      [] OTHER -> {}

\* hoehrmann.rs:34: the index of `UTF8D.get_unchecked` in decode(state, byte).
decode_index(state, byte) == 256 + state + At(UTF8D, byte)

\* C17: every read without a bounds check stays in bounds, for every input
\* length: the words of the word-wise loop, the vector loads of the ASCII
\* scanners and the DFA's input read cover only indices below len; the DFA's
\* table index 256 + state + class is below 364 for every byte, in the state
\* the loop holds and in every state of the table; and the scan index never
\* passes len, so that no `v[index]` at a loop head and no `&x[i..]` can panic.
C17_ReadsInBounds ==
    /\ InBounds(UncheckedReads, x)
    /\ index <= Len(x)
    /\ fn = "hoehrmann" =>
           /\ Len(UTF8D) = 364
           /\ \A st \in DfaStates \cup {s} : \A b \in Bytes :
                  decode_index(st, b) < Len(UTF8D)

\* C17 witness: the word-wise loop is about to read two blocks or more, the
\* last of which ends at the last byte of an input that does not start at a
\* word boundary.
C17_Witness ==
    /\ fn = "is_utf8" /\ pc = "loop" /\ base # 0
    /\ Cardinality(UncheckedReads) >= 4 * usize_bytes
    /\ (Len(x) - 1) \in UncheckedReads

\* C18: the verdict of the grammar-based validator depends only on the bytes:
\* the result of a call is the result at every alignment offset of the buffer
\* start relative to the machine word and for both word sizes, 4 and 8.
C18_AlignmentIndependent ==
    g_res # NotCalled =>
        \A bytes \in WordSizes : \A b \in 0..(bytes - 1) :
            is_utf8(x, b, bytes) = g_res

\* C18 witness: an error found behind an ASCII run of two blocks or more, which
\* the word-wise loop skips at some alignments and the byte-wise fallback at
\* the others.
C18_Witness ==
    /\ IsErr(g_res) /\ g_res.valid_up_to >= 16
    /\ \A k \in 0..(g_res.valid_up_to - 1) : At(x, k) < 128

\* C19: for every invalid byte sequence both validators report an error, the
\* grammar-based validator reports error_len = None exactly when the DFA does,
\* and where the two error_len differ the grammar-based validator reports
\* Some(2) or Some(3) and the DFA Some(1).
C19_SameTruncation ==
    (BothCalled /\ ~RFC_WellFormed(x)) =>
        /\ IsErr(g_res) /\ IsErr(d_res)
        /\ (g_res.error_len = None) <=> (d_res.error_len = None)
        /\ g_res.error_len # d_res.error_len =>
               /\ g_res.error_len \in {Some(2), Some(3)}
               /\ d_res.error_len = Some(1)

\* C19 witness: F0 90 80 followed by a byte that is no continuation byte: the
\* grammar-based validator reports Some(3), the DFA Some(1).
C19_Witness ==
    /\ BothCalled /\ ~RFC_WellFormed(x)
    /\ g_res.error_len = Some(3) /\ d_res.error_len = Some(1)
====
